---- MODULE Spec2Model ----
(***************************************************************************)
(* A model of module_api.py: the extraction of the `def`/`class` headers   *)
(* (and optional docstrings) of Python source files from their token       *)
(* streams.  The tokenizer and the untokenizer of the standard library are *)
(* modelled by what they do to the token kinds the program looks at.       *)
(***************************************************************************)
EXTENDS Integers, Sequences, FiniteSets, TLC

VARIABLES
    files,       \* ns.files: the files given on the command line, in order
    def_type,    \* ns.def_type
    docstrings,  \* ns.docstrings
    debug,       \* ns.debug
    pc,          \* where main/handler stands: "loop", "scan", "returned", "raised"
    fileIdx,     \* number of files the handler's loop has started on
    opened,      \* the indices of the files opened so far, in order
    gen,         \* the token generator of the current file
    defs,        \* what _read_signature returned for each Definition yielded so far
    kept,        \* the Definitions filter_definitions yielded so far (current file)
    api,         \* the strings module_api has rendered so far (current file)
    out_apis,    \* handler's out_apis
    stdout,      \* what has been printed
    result       \* what main returned, or the exception that left it

vars == <<files, def_type, docstrings, debug, pc, fileIdx, opened, gen, defs,
          kept, api, out_apis, stdout, result>>

(***************************************************************************)
(* Bounds of the model.                                                    *)
(***************************************************************************)
\* longest token sequence enumerated exhaustively
MaxLen == 3
\* most files on one command line
MaxFiles == 2

\* columns of one indentation level in the modelled sources
IndentWidth == 4

(***************************************************************************)
(* Text helpers.                                                           *)
(***************************************************************************)
RECURSIVE Repeat(_, _)
Repeat(s, n) == IF n <= 0 THEN "" ELSE s \o Repeat(s, n - 1)

Spaces(n) == Repeat(" ", n)

RECURSIVE Join(_, _)
\* sep.join(strs)
Join(sep, strs) ==
    IF Len(strs) = 0 THEN ""
    ELSE IF Len(strs) = 1 THEN strs[1]
    ELSE strs[1] \o sep \o Join(sep, Tail(strs))

RECURSIVE Concat(_)
Concat(strs) == IF Len(strs) = 0 THEN "" ELSE strs[1] \o Concat(Tail(strs))

\* str.startswith("_")
StartsWithUnderscore(s) == Len(s) >= 1 /\ SubSeq(s, 1, 1) = "_"

RECURSIVE SeqsUpTo(_, _)
\* all sequences over S of length at most n
SeqsUpTo(S, n) ==
    IF n = 0 THEN {<<>>}
    ELSE LET shorter == SeqsUpTo(S, n - 1)
         IN  shorter \cup {Append(s, x) : s \in {t \in shorter : Len(t) = n - 1}, x \in S}

(***************************************************************************)
(* Lexemes: the kind and text of a token, before the tokenizer gives it a  *)
(* position.  A source file is modelled as its sequence of lexemes.        *)
(***************************************************************************)
Lx(type, string) == [type |-> type, string |-> string]

KwDef    == Lx("NAME", "def")
KwClass  == Lx("NAME", "class")
PubName  == Lx("NAME", "f")
PrivName == Lx("NAME", "_g")
LPar     == Lx("OP", "(")
RPar     == Lx("OP", ")")
Colon    == Lx("OP", ":")
Newline  == Lx("NEWLINE", "\n")
Indent   == Lx("INDENT", "")
Str      == Lx("STRING", "'d'")
Nl       == Lx("NL", "\n")
Comment  == Lx("COMMENT", "# c")
Comma    == Lx("OP", ",")
Pass     == Lx("NAME", "pass")
Equals   == Lx("OP", "=")
Dedent   == Lx("DEDENT", "")

Alphabet == {KwDef, KwClass, PubName, PrivName, LPar, RPar, Colon, Newline, Indent, Str}

\* tok.exact_type
ExactType(tok) ==
    IF tok.type = "OP"
    THEN CASE tok.string = "(" -> "LPAR"
           [] tok.string = ")" -> "RPAR"
           [] tok.string = ":" -> "COLON"
           [] OTHER -> "OP"
    ELSE tok.type

(***************************************************************************)
(* generate_tokens (tokenize.py of the standard library, called at line    *)
(* 150): the lexemes of a source laid out on physical lines.  Tokens on a  *)
(* line are separated by one blank between two words and by two blanks     *)
(* before a comment; a line at parenthesis level 0 starts at the current   *)
(* indentation.  A source the tokenizer cannot have produced the lexemes   *)
(* of (an INDENT in mid-line, a NEWLINE inside parentheses) is not legal.  *)
(***************************************************************************)
IsWord(type) == type \in {"NAME", "STRING", "NUMBER"}

IsLineEnd(type) == type \in {"NEWLINE", "NL"}

StartState ==
    [row |-> 1, col |-> 0, lev |-> 0, nind |-> 0, atStart |-> TRUE,
     prevType |-> "NONE", bare |-> FALSE, ok |-> TRUE, out |-> <<>>]

\* whether the tokenizer can yield lexeme lx in state st
Legal(st, lx) ==
    CASE lx.type = "INDENT"  -> st.atStart /\ st.lev = 0 /\ st.prevType = "NONE"
      [] lx.type = "DEDENT"  -> st.atStart /\ st.lev = 0 /\ st.nind > 0
      [] lx.type = "NEWLINE" -> /\ ~st.atStart
                                /\ st.lev <= 0
                                /\ st.prevType # "INDENT"
                                /\ ~st.bare
      [] lx.type = "NL"      -> \/ st.lev > 0
                                \/ st.lev = 0 /\ st.bare
                                \/ st.lev = 0 /\ st.atStart /\ st.prevType = "NONE"
      [] lx.type = "COMMENT" -> st.prevType \notin {"INDENT", "DEDENT", "COMMENT"}
      [] OTHER               -> st.prevType # "COMMENT"

\* the state after the tokenizer has yielded lexeme lx
Place(st, lx) ==
    LET isEnd  == IsLineEnd(lx.type)
        string == IF lx.type = "INDENT"
                  THEN Spaces(IndentWidth * (st.nind + 1))
                  ELSE lx.string
        startCol ==
            CASE lx.type = "INDENT"  -> 0
              [] lx.type = "DEDENT"  -> IndentWidth * (st.nind - 1)
              [] st.atStart /\ isEnd -> 0
              [] st.atStart          -> IndentWidth * st.nind
              [] lx.type = "COMMENT" -> st.col + 2
              [] IsWord(lx.type) /\ IsWord(st.prevType) -> st.col + 1
              [] OTHER               -> st.col
        endCol == startCol + Len(string)
        tok == [type |-> lx.type, string |-> string,
                start |-> <<st.row, startCol>>, end |-> <<st.row, endCol>>]
    IN  [row      |-> IF isEnd THEN st.row + 1 ELSE st.row,
         col      |-> IF isEnd THEN 0 ELSE endCol,
         lev      |-> CASE ExactType(lx) = "LPAR" -> st.lev + 1
                        [] ExactType(lx) = "RPAR" -> st.lev - 1
                        [] OTHER -> st.lev,
         nind     |-> CASE lx.type = "INDENT" -> st.nind + 1
                        [] lx.type = "DEDENT" -> st.nind - 1
                        [] OTHER -> st.nind,
         atStart  |-> isEnd \/ (lx.type = "DEDENT"),
         prevType |-> IF isEnd THEN "NONE" ELSE lx.type,
         bare     |-> lx.type = "COMMENT" /\ st.atStart,
         ok       |-> st.ok /\ Legal(st, lx),
         out      |-> Append(st.out, tok)]

RECURSIVE Layout(_, _, _)
Layout(src, i, st) ==
    IF i > Len(src) THEN st ELSE Layout(src, i + 1, Place(st, src[i]))

\* the lexemes are those of some source text
TokenizerOutput(src) ==
    LET st == Layout(src, 1, StartState)
    IN  st.ok /\ st.prevType \notin {"INDENT", "COMMENT"}

RECURSIVE LineText(_, _, _, _)
\* the text of physical line `row`: its tokens from index i on, after column col
LineText(toks, row, i, col) ==
    IF i > Len(toks) THEN ""
    ELSE IF toks[i].start[1] # row THEN LineText(toks, row, i + 1, col)
    ELSE Spaces(toks[i].start[2] - col) \o toks[i].string
            \o LineText(toks, row, i + 1, toks[i].end[2])

\* the tokens the tokenizer adds at the end of the input (lines 603-607 of
\* tokenize.py): an implicit NEWLINE, the open DEDENTs, the ENDMARKER
EndTokens(st) ==
    LET lnum == IF st.atStart THEN st.row ELSE st.row + 1
        implicit == IF st.atStart THEN <<>>
                    ELSE << [type |-> "NEWLINE", string |-> "",
                             start |-> <<st.row, st.col>>,
                             end |-> <<st.row, st.col + 1>>, line |-> ""] >>
        at(type) == [type |-> type, string |-> "", start |-> <<lnum, 0>>,
                     end |-> <<lnum, 0>>, line |-> ""]
    IN  implicit \o [k \in 1..st.nind |-> at("DEDENT")] \o << at("ENDMARKER") >>

\* generate_tokens(f.readline): the TokenInfo sequence of a source, and whether
\* the tokenizer raises TokenError ("EOF in multi-line statement") after it
Tokenize(src) ==
    LET st == Layout(src, 1, StartState)
        placed == [i \in 1..Len(src) |->
                     [type |-> st.out[i].type, string |-> st.out[i].string,
                      start |-> st.out[i].start, end |-> st.out[i].end,
                      line |-> LineText(st.out, st.out[i].start[1], 1, 0)]]
    IN  [toks  |-> IF st.lev # 0 THEN placed ELSE placed \o EndTokens(st),
         error |-> st.lev # 0,
         pos   |-> 0]

NoGen == [toks |-> <<>>, error |-> FALSE, pos |-> 0]

(***************************************************************************)
(* next(gen): g.pos tokens have been taken from the generator.             *)
(***************************************************************************)
\* what the pull after the last token raises
GenEnd(g) == IF g.error THEN "TokenError" ELSE "StopIteration"

HasNext(g, p) == p < Len(g.toks)

(***************************************************************************)
(* _read_signature (lines 178-210).  Tokens are named by their index in    *)
(* the stream; p is the index of the token held in `tok`, which is also    *)
(* the number of tokens taken from the generator.                          *)
(***************************************************************************)
\* line 188 without its depth test: the first colon ends the header
HeaderContinuesAnyDepth(tok, parens) == ExactType(tok) # "COLON"

\* the condition of the while loop, line 188
HeaderContinues(tok, parens) == ExactType(tok) # "COLON" \/ parens > 0

\* lines 190-193
ParensAfter(tok, parens) ==
    CASE ExactType(tok) = "LPAR" -> parens + 1
      [] ExactType(tok) = "RPAR" -> parens - 1
      [] OTHER -> parens

\* line 201 with INDENT left out of the tuple
InDocRunNoIndent(tok) == ExactType(tok) \in {"NEWLINE", "STRING"}

\* the membership test of the while loop, line 201
InDocRun(tok) == ExactType(tok) \in {"NEWLINE", "INDENT", "STRING"}

\* line 194 recovering from the end of the stream: the tokens read so far are
\* returned as the signature
HeaderExhaustedLenient(g, p, signature, parens) ==
    [status |-> "ok", signature |-> signature, parens |-> parens, pos |-> p]

\* line 194 when the generator has no token left: next(gen) raises
HeaderExhausted(g, p, signature, parens) ==
    [status |-> GenEnd(g), signature |-> signature, parens |-> parens, pos |-> p]

RECURSIVE ReadHeader(_, _, _, _)
\* lines 188-196: the loop up to the colon, and the append of the colon
ReadHeader(g, p, signature, parens) ==
    IF HeaderContinues(g.toks[p], parens)
    THEN IF HasNext(g, p)
         THEN ReadHeader(g, p + 1, Append(signature, p), ParensAfter(g.toks[p], parens))
         ELSE HeaderExhausted(g, p, Append(signature, p),
                              ParensAfter(g.toks[p], parens))
    ELSE [status |-> "ok", signature |-> Append(signature, p),
          parens |-> parens, pos |-> p]

RECURSIVE ReadDocRun(_, _, _)
\* lines 201-203: the look-ahead loop; the token at p has been taken
ReadDocRun(g, p, docstring) ==
    IF InDocRun(g.toks[p])
    THEN IF HasNext(g, p)
         THEN ReadDocRun(g, p + 1, Append(docstring, p))
         ELSE [status |-> GenEnd(g), docstring |-> Append(docstring, p), pos |-> p]
    ELSE [status |-> "ok", docstring |-> docstring, pos |-> p]

\* line 207
HasString(g, docstring) ==
    \E k \in 1..Len(docstring) : ExactType(g.toks[docstring[k]]) = "STRING"

\* lines 198-208 extending the signature with the STRING tokens of the run only
WithDocstringStringsOnly(g, h) ==
    IF ~HasNext(g, h.pos)
    THEN [status |-> GenEnd(g), tokens |-> h.signature, nsig |-> Len(h.signature),
          parens |-> h.parens, pos |-> h.pos]
    ELSE LET d == ReadDocRun(g, h.pos + 1, <<>>)
             isString(i) == ExactType(g.toks[i]) = "STRING"
         IN  [status |-> d.status,
              tokens |-> h.signature \o SelectSeq(d.docstring, isString),
              nsig   |-> Len(h.signature),
              parens |-> h.parens,
              pos    |-> d.pos]

\* lines 198-208 given the header read: the look-ahead and the conditional extend
WithDocstring(g, h) ==
    IF ~HasNext(g, h.pos)
    THEN [status |-> GenEnd(g), tokens |-> h.signature, nsig |-> Len(h.signature),
          parens |-> h.parens, pos |-> h.pos]
    ELSE LET d == ReadDocRun(g, h.pos + 1, <<>>)
         IN  [status |-> d.status,
              tokens |-> IF d.status = "ok" /\ HasString(g, d.docstring)
                         THEN h.signature \o d.docstring
                         ELSE h.signature,
              nsig   |-> Len(h.signature),
              parens |-> h.parens,
              pos    |-> d.pos]

\* _read_signature working on a copy of the stream: the scan goes on right after
\* the keyword
ReadSignatureRewinding(g, p, include_docstring) ==
    LET h == ReadHeader(g, p, <<>>, 0)
        r == IF h.status = "ok" /\ include_docstring
             THEN WithDocstring(g, h)
             ELSE [status |-> h.status, tokens |-> h.signature,
                   nsig |-> Len(h.signature), parens |-> h.parens, pos |-> h.pos]
    IN  IF r.status = "ok" THEN [r EXCEPT !.pos = p] ELSE r

\* _read_signature without the test of line 198: the look-ahead always runs
ReadSignatureAlwaysLookahead(g, p, include_docstring) ==
    LET h == ReadHeader(g, p, <<>>, 0)
    IN  IF h.status = "ok"
        THEN WithDocstring(g, h)
        ELSE [status |-> h.status, tokens |-> h.signature, nsig |-> Len(h.signature),
              parens |-> h.parens, pos |-> h.pos]

\* _read_signature(gen, tok, include_docstring) with tok the token at index p.
\* tokens: the returned list; nsig: how many of them are the signature;
\* parens: the depth when the header loop ended; pos: tokens taken from gen
ReadSignature(g, p, include_docstring) ==
    LET h == ReadHeader(g, p, <<>>, 0)
    IN  IF h.status = "ok" /\ include_docstring
        THEN WithDocstring(g, h)
        ELSE [status |-> h.status, tokens |-> h.signature, nsig |-> Len(h.signature),
              parens |-> h.parens, pos |-> h.pos]

(***************************************************************************)
(* find_definitions (lines 143-155): one resumption of the generator, from *)
(* the token after position p to its next yield, its end or its failure.   *)
(***************************************************************************)
\* the tests of lines 152 and 154
IsKeyword(tok) ==
    \/ tok.type = "NAME" /\ tok.string = "def"
    \/ tok.type = "NAME" /\ tok.string = "class"

\* a StopIteration raised inside a generator leaves it as a RuntimeError
InGenerator(status) == IF status = "StopIteration" THEN "RuntimeError" ELSE status

RECURSIVE FindNext(_, _, _)
FindNext(g, p, include_docstring) ==
    IF ~HasNext(g, p)
    THEN [status |-> IF g.error THEN "TokenError" ELSE "stop", pos |-> p]
    ELSE IF IsKeyword(g.toks[p + 1])
    THEN LET r == ReadSignature(g, p + 1, include_docstring)
         IN  [r EXCEPT !.status = IF r.status = "ok" THEN "yield"
                                  ELSE InGenerator(r.status)]
    ELSE FindNext(g, p + 1, include_docstring)

(***************************************************************************)
(* filter_definitions and _find_signature_name (lines 213-236).            *)
(***************************************************************************)
RECURSIVE KeywordIndex(_, _, _)
\* the for loop of lines 230-232: the index in `tokens` of the first keyword, or 0
KeywordIndex(g, tokens, k) ==
    IF k > Len(tokens) THEN 0
    ELSE IF /\ ExactType(g.toks[tokens[k]]) = "NAME"
            /\ g.toks[tokens[k]].string \in {"def", "class"}
    THEN k
    ELSE KeywordIndex(g, tokens, k + 1)

\* _find_signature_name(tokens): the token after the first keyword
FindSignatureName(g, tokens) ==
    LET k == KeywordIndex(g, tokens, 1)
    IN  IF k = 0 THEN [status |-> "ValueError", tok |-> 0]
        ELSE IF k = Len(tokens) THEN [status |-> "StopIteration", tok |-> 0]
        ELSE [status |-> "ok", tok |-> tokens[k + 1]]

\* lines 220-224 with the private test on `not startswith`
KeepsPrivateNegated(mode, name) ==
    \/ mode = "all"
    \/ mode = "public" /\ ~StartsWithUnderscore(name)
    \/ mode = "private" /\ ~StartsWithUnderscore(name)

\* the condition of lines 220-224
Keeps(mode, name) ==
    \/ mode = "all"
    \/ mode = "public" /\ ~StartsWithUnderscore(name)
    \/ mode = "private" /\ StartsWithUnderscore(name)

\* whether filter_definitions in `mode` yields the Definition made of `tokens`
Retains(g, tokens, mode) ==
    LET n == FindSignatureName(g, tokens)
    IN  n.status = "ok" /\ Keeps(mode, g.toks[n.tok].string)

RECURSIVE FilterDefinitions(_, _, _)
\* filter_definitions over a whole sequence of Definitions
FilterDefinitions(g, definitions, mode) ==
    IF Len(definitions) = 0 THEN <<>>
    ELSE IF Retains(g, Head(definitions), mode)
    THEN <<Head(definitions)>> \o FilterDefinitions(g, Tail(definitions), mode)
    ELSE FilterDefinitions(g, Tail(definitions), mode)

(***************************************************************************)
(* untokenize (Untokenizer.untokenize and add_whitespace of tokenize.py,   *)
(* called at line 140) on full TokenInfo tuples, and the lstrip after it.  *)
(***************************************************************************)
UntokStart ==
    [text |-> "", prev_row |-> 1, prev_col |-> 0, indents |-> <<>>,
     startline |-> FALSE, status |-> "ok"]

\* one iteration of the loop of Untokenizer.untokenize for token t
UntokStep(u, t) ==
    IF t.type = "INDENT" THEN [u EXCEPT !.indents = Append(@, t.string)]
    ELSE IF t.type = "DEDENT"
    THEN IF Len(u.indents) = 0 THEN [u EXCEPT !.status = "IndexError"]
         ELSE [u EXCEPT !.indents = SubSeq(@, 1, Len(@) - 1),
                        !.prev_row = t.end[1], !.prev_col = t.end[2]]
    ELSE LET isEnd   == t.type \in {"NEWLINE", "NL"}
             atLine  == ~isEnd /\ u.startline /\ Len(u.indents) > 0
             indent  == IF atLine THEN u.indents[Len(u.indents)] ELSE ""
             putsInd == atLine /\ t.start[2] >= Len(indent)
             text1   == IF putsInd THEN u.text \o indent ELSE u.text
             col1    == IF putsInd THEN Len(indent) ELSE u.prev_col
             row     == t.start[1]
             col     == t.start[2]
             bad     == row < u.prev_row \/ (row = u.prev_row /\ col < col1)
             rowOff  == row - u.prev_row
             col2    == IF rowOff # 0 THEN 0 ELSE col1
         IN  IF bad THEN [u EXCEPT !.status = "ValueError"]
             ELSE [text      |-> text1 \o Repeat("\\\n", rowOff)
                                       \o Spaces(col - col2) \o t.string,
                   prev_row  |-> IF isEnd THEN t.end[1] + 1 ELSE t.end[1],
                   prev_col  |-> IF isEnd THEN 0 ELSE t.end[2],
                   indents   |-> u.indents,
                   startline |-> IF isEnd THEN TRUE
                                 ELSE IF atLine THEN FALSE ELSE u.startline,
                   status    |-> "ok"]

RECURSIVE Untokenize(_, _, _, _)
\* untokenize of the tokens of g named by `tokens`, from the k-th on
Untokenize(g, tokens, k, u) ==
    IF k > Len(tokens) \/ u.status # "ok" THEN u
    ELSE IF g.toks[tokens[k]].type = "ENDMARKER" THEN u
    ELSE Untokenize(g, tokens, k + 1, UntokStep(u, g.toks[tokens[k]]))

RECURSIVE LStrip(_, _)
\* str.lstrip(chars)
LStrip(s, chars) ==
    IF Len(s) > 0 /\ SubSeq(s, 1, 1) \in chars
    THEN LStrip(SubSeq(s, 2, Len(s)), chars)
    ELSE s

\* line 140: untokenize(d).lstrip("\\\n")
Render(g, tokens) ==
    LET u == Untokenize(g, tokens, 1, UntokStart)
    IN  [status |-> u.status, text |-> LStrip(u.text, {"\\", "\n"})]

(***************************************************************************)
(* module_api (lines 131-140): one step of its list comprehension, from    *)
(* one resumption of find_definitions to the next.                         *)
(***************************************************************************)
ApiStep(g, mode, include_docstring) ==
    LET r == FindNext(g, g.pos, include_docstring)
        n == FindSignatureName(g, r.tokens)
        t == Render(g, r.tokens)
        base == [status |-> r.status, pos |-> r.pos, read |-> <<>>,
                 kept |-> FALSE, text |-> ""]
    IN  IF r.status # "yield" THEN base
        ELSE IF n.status # "ok"
        THEN [base EXCEPT !.status = InGenerator(n.status), !.read = <<r>>]
        ELSE IF ~Keeps(mode, g.toks[n.tok].string)
        THEN [base EXCEPT !.read = <<r>>]
        ELSE IF t.status # "ok"
        THEN [base EXCEPT !.status = t.status, !.read = <<r>>, !.kept = TRUE]
        ELSE [base EXCEPT !.read = <<r>>, !.kept = TRUE, !.text = t.text]

(***************************************************************************)
(* The inputs: sources and command lines.                                  *)
(***************************************************************************)
File(name, readable, src) == [name |-> name, readable |-> readable, src |-> src]

Name(string) == Lx("NAME", string)

\* def f(f=()):               (a docstring follows the header)
\*     'd'
\*     pass
SrcDocstring ==
    <<KwDef, PubName, LPar, PubName, Equals, LPar, RPar, RPar, Colon, Newline,
      Indent, Str, Newline, Pass, Newline>>

\* class _Hidden:
\*     pass
SrcHidden == <<KwClass, Name("_Hidden"), Colon, Newline, Indent, Pass, Newline>>

\* def f(                     (a header over several lines)
\* f,
\* ):
\*     pass
SrcMultiLine ==
    <<KwDef, PubName, LPar, Nl, PubName, Comma, Nl, RPar, Colon, Newline,
      Indent, Pass, Newline>>

\* class A:                   (the def is the first statement of the class)
\*     def f():
\*         pass
SrcNested ==
    <<KwClass, Name("A"), Colon, Newline, Indent, KwDef, PubName, LPar, RPar, Colon,
      Newline, Indent, Pass, Newline>>

\* class A:                   (the def directly follows the class docstring)
\*     'd'
\*     def _g():
\*         pass
SrcNestedAfterDoc ==
    <<KwClass, Name("A"), Colon, Newline, Indent, Str, Newline,
      KwDef, PrivName, LPar, RPar, Colon, Newline, Indent, Pass, Newline>>

\* class A:  # c              (a comment after the colon, a second definition)
\*     pass
\* def _g(): pass
SrcComment ==
    <<KwClass, Name("A"), Colon, Comment, Newline, Indent, Pass, Newline,
      Dedent, KwDef, PrivName, LPar, RPar, Colon,
      Pass, Newline>>

\* def f():                   (two string statements)
\*     'd'
\*     'd'
SrcTwoStrings ==
    <<KwDef, PubName, LPar, RPar, Colon, Newline, Indent, Str, Newline, Str, Newline>>

\* class A:                   (a blank line between the docstring and the def)
\*     'd'
\*
\*     def f():
\*         pass
SrcDocThenDef ==
    <<KwClass, Name("A"), Colon, Newline, Indent, Str, Newline, Nl,
      KwDef, PubName, LPar, RPar, Colon, Newline, Indent, Pass, Newline>>

\* def f
SrcTruncated == <<KwDef, PubName, Newline>>

\* def f(): pass              (the second header never ends)
\* def f
SrcTruncatedSecond ==
    <<KwDef, PubName, LPar, RPar, Colon, Pass, Newline, KwDef, PubName, Newline>>

\* def f):(                   (a close parenthesis before any open one)
SrcUnbalanced == <<KwDef, PubName, RPar, Colon, LPar, Newline>>

\* def f(:):                  (a colon inside the parentheses)
SrcInnerColon == <<KwDef, PubName, LPar, Colon, RPar, Colon, Newline>>

Samples ==
    {SrcDocstring, SrcHidden, SrcMultiLine, SrcNested, SrcNestedAfterDoc,
     SrcComment, SrcTwoStrings, SrcDocThenDef, SrcTruncated, SrcTruncatedSecond,
     SrcUnbalanced, SrcInnerColon}

\* the sources of the single-file runs
Streams == {src \in SeqsUpTo(Alphabet, MaxLen) : TokenizerOutput(src)} \cup Samples

\* the files of the multi-file runs
FileSamples ==
    {File("a.py", TRUE, SrcHidden), File("b.py", TRUE, SrcNestedAfterDoc),
     File("c.py", TRUE, SrcTruncatedSecond), File("d.py", FALSE, <<>>)}

DefTypes == {"public", "private", "all"}

NoResult == [kind |-> "none", code |-> 0, text |-> ""]

(***************************************************************************)
(* main (lines 24-36) and handler (lines 109-128).                         *)
(***************************************************************************)
\* str(e) of the exceptions that can leave handler
Message(exc) ==
    CASE exc = "RuntimeError" -> "generator raised StopIteration"
      [] exc = "TokenError"   -> "EOF in multi-line statement"
      [] exc = "OSError"      -> "No such file or directory"
      [] exc = "IndexError"   -> "pop from empty list"
      [] OTHER                -> exc

\* lines 32-36 without the debug test: the message is always returned
CaughtIgnoringDebug(exc) == [kind |-> "return", code |-> 0, text |-> Message(exc)]

\* lines 32-36: what main does with an exception out of the handler
Caught(exc) ==
    IF debug THEN [kind |-> "raise", code |-> 0, text |-> exc]
    ELSE [kind |-> "return", code |-> 0, text |-> Message(exc)]

\* line 21: the exit status SystemExit(main(args)) gives the process
ExitStatus(r) == IF r.kind = "int" THEN r.code ELSE 1

Init0 ==
    /\ def_type \in DefTypes
    /\ docstrings \in BOOLEAN
    /\ pc = "loop"
    /\ fileIdx = 0
    /\ opened = <<>>
    /\ gen = NoGen
    /\ defs = <<>>
    /\ kept = <<>>
    /\ api = <<>>
    /\ out_apis = <<>>
    /\ stdout = <<>>
    /\ result = NoResult

\* one file, every source, debug off (the debug path of main is in InitMain)
Init ==
    /\ files \in {<<File("a.py", TRUE, src)>> : src \in Streams}
                   \cup {<<File("a.py", FALSE, <<>>)>>}
    /\ debug = FALSE
    /\ Init0

\* several files, drawn from the samples
InitMain ==
    /\ files \in {fs \in SeqsUpTo(FileSamples, MaxFiles) : Len(fs) >= 1}
    /\ debug \in BOOLEAN
    /\ Init0

\* lines 116-119: the loop takes the next file, opens and reads it
OpenOk ==
    /\ pc = "loop"
    /\ fileIdx < Len(files)
    /\ files[fileIdx + 1].readable
    /\ fileIdx' = fileIdx + 1
    /\ opened' = Append(opened, fileIdx + 1)
    /\ gen' = Tokenize(files[fileIdx + 1].src)
    /\ defs' = <<>>
    /\ kept' = <<>>
    /\ api' = <<>>
    /\ pc' = "scan"
    /\ UNCHANGED <<files, def_type, docstrings, debug, out_apis, stdout, result>>

\* line 118 raises
OpenFail ==
    /\ pc = "loop"
    /\ fileIdx < Len(files)
    /\ ~files[fileIdx + 1].readable
    /\ fileIdx' = fileIdx + 1
    /\ opened' = Append(opened, fileIdx + 1)
    /\ result' = Caught("OSError")
    /\ pc' = IF debug THEN "raised" ELSE "returned"
    /\ UNCHANGED <<files, def_type, docstrings, debug, gen, defs, kept, api,
                   out_apis, stdout>>

\* line 120: find_definitions yields a Definition; it is filtered and rendered
ScanYield ==
    /\ pc = "scan"
    /\ LET step == ApiStep(gen, def_type, docstrings)
       IN  /\ step.status = "yield"
           /\ gen' = [gen EXCEPT !.pos = step.pos]
           /\ defs' = defs \o step.read
           /\ kept' = IF step.kept THEN Append(kept, step.read[1].tokens) ELSE kept
           /\ api' = IF step.kept THEN Append(api, step.text) ELSE api
    /\ UNCHANGED <<files, def_type, docstrings, debug, pc, fileIdx, opened,
                   out_apis, stdout, result>>

\* lines 120-123 printing each file's entries as soon as they are complete
ScanStopPrinting ==
    /\ pc = "scan"
    /\ LET step == ApiStep(gen, def_type, docstrings)
       IN  /\ step.status = "stop"
           /\ gen' = [gen EXCEPT !.pos = step.pos]
    /\ out_apis' = Append(out_apis,
                          Join("\n\n", <<"# " \o files[fileIdx].name>> \o api))
    /\ stdout' = Append(stdout,
                        Join("\n\n", <<"# " \o files[fileIdx].name>> \o api) \o "\n")
    /\ pc' = "loop"
    /\ UNCHANGED <<files, def_type, docstrings, debug, fileIdx, opened, defs, kept,
                   api, result>>

\* lines 120-123: the stream ends, module_api returns its list
ScanStop ==
    /\ pc = "scan"
    /\ LET step == ApiStep(gen, def_type, docstrings)
       IN  /\ step.status = "stop"
           /\ gen' = [gen EXCEPT !.pos = step.pos]
    /\ out_apis' = Append(out_apis,
                          Join("\n\n", <<"# " \o files[fileIdx].name>> \o api))
    /\ pc' = "loop"
    /\ UNCHANGED <<files, def_type, docstrings, debug, fileIdx, opened, defs, kept,
                   api, stdout, result>>

\* line 120 raises: the exception leaves module_api and handler
ScanFail ==
    /\ pc = "scan"
    /\ LET step == ApiStep(gen, def_type, docstrings)
       IN  /\ step.status \notin {"yield", "stop"}
           /\ gen' = [gen EXCEPT !.pos = step.pos]
           /\ defs' = defs \o step.read
           /\ kept' = IF step.kept THEN Append(kept, step.read[1].tokens) ELSE kept
           /\ result' = Caught(step.status)
    /\ pc' = IF debug THEN "raised" ELSE "returned"
    /\ UNCHANGED <<files, def_type, docstrings, debug, fileIdx, opened, api,
                   out_apis, stdout>>

\* lines 125-128: after the last file
PrintAll ==
    /\ pc = "loop"
    /\ fileIdx = Len(files)
    /\ stdout' = Append(stdout, Join("\n\n", out_apis) \o "\n")
    /\ result' = [kind |-> "int", code |-> 0, text |-> ""]
    /\ pc' = "returned"
    /\ UNCHANGED <<files, def_type, docstrings, debug, fileIdx, opened, gen, defs,
                   kept, api, out_apis>>

Next == OpenOk \/ OpenFail \/ ScanYield \/ ScanStop \/ ScanFail \/ PrintAll

Spec == Init /\ [][Next]_vars

SpecMain == InitMain /\ [][Next]_vars

(***************************************************************************)
(* Vocabulary of the properties.                                           *)
(***************************************************************************)
Last(seq) == seq[Len(seq)]

\* the Definitions find_definitions has yielded, as lists of token indices
Definitions == [k \in 1..Len(defs) |-> defs[k].tokens]

\* module_api has returned its list for the current file
ApiReturned == fileIdx >= 1 /\ Len(out_apis) = fileIdx

\* the indices of the NAME tokens `def` and `class` of a stream
KeywordTokens(g) ==
    {i \in 1..Len(g.toks) :
        g.toks[i].type = "NAME" /\ g.toks[i].string \in {"def", "class"}}

\* the modelled sources that are syntactically valid Python
ValidSources ==
    {SrcDocstring, SrcHidden, SrcMultiLine, SrcNested, SrcNestedAfterDoc,
     SrcComment, SrcTwoStrings, SrcDocThenDef}

\* INDENT tokens minus DEDENT tokens among the tokens a..b
IndentDepth(g, a, b) ==
    Cardinality({m \in a..b : g.toks[m].type = "INDENT"})
        - Cardinality({m \in a..b : g.toks[m].type = "DEDENT"})

\* token j lies in the indented block that follows token i
InBody(g, i, j) ==
    /\ i < j
    /\ \E k \in (i + 1)..(j - 1) :
          /\ g.toks[k].type = "INDENT"
          /\ \A m \in i..(k - 1) : g.toks[m].type \notin {"INDENT", "DEDENT"}
          /\ \A m \in k..(j - 1) : IndentDepth(g, k, m) >= 1

\* C1: for a syntactically valid file and either docstring setting, the number
\* of Definitions find_definitions yields equals the number of NAME tokens of
\* the stream whose text is `def` or `class`.
C1_CountEqualsKeywords ==
    (ApiReturned /\ files[fileIdx].src \in ValidSources)
        => Len(defs) = Cardinality(KeywordTokens(gen))

\* C2: for a class whose body contains a function definition, the scan in All
\* mode with docstrings on yields a Definition that starts at the `class`
\* keyword and a Definition that starts at the nested `def` keyword.
C2_NestedYieldsBoth ==
    (ApiReturned /\ docstrings /\ def_type = "all")
        => \A i, j \in KeywordTokens(gen) :
              (/\ gen.toks[i].string = "class"
               /\ gen.toks[j].string = "def"
               /\ InBody(gen, i, j))
                  => /\ \E a \in 1..Len(defs) : defs[a].tokens[1] = i
                     /\ \E b \in 1..Len(defs) : defs[b].tokens[1] = j

\* C3: when _read_signature returns, the cursor of the stream is at the first
\* token that is not part of the returned Definition: every token it took from
\* the stream is in the Definition (so a look-ahead run without a string is
\* still in the stream).
C3_CursorAtFirstUnconsumed ==
    \A k \in 1..Len(defs) : defs[k].pos = Last(defs[k].tokens)

\* open minus close parentheses among the first k - 1 tokens of a Definition:
\* the depth at which its k-th token is seen
DepthBefore(g, tokens, k) ==
    Cardinality({m \in 1..(k - 1) : ExactType(g.toks[tokens[m]]) = "LPAR"})
        - Cardinality({m \in 1..(k - 1) : ExactType(g.toks[tokens[m]]) = "RPAR"})

IsColonAt(g, tokens, k) == ExactType(g.toks[tokens[k]]) = "COLON"

\* C4 as stated: the signature portion of every Definition ends with a colon
\* seen at parenthesis depth exactly 0, the only depth-0 colon of the signature,
\* on any token stream.
C4_ColonAtDepthZero ==
    \A d \in 1..Len(defs) :
        LET sig == SubSeq(defs[d].tokens, 1, defs[d].nsig)
        IN  /\ IsColonAt(gen, sig, Len(sig))
            /\ DepthBefore(gen, sig, Len(sig)) = 0
            /\ \A k \in 1..(Len(sig) - 1) :
                  IsColonAt(gen, sig, k) => DepthBefore(gen, sig, k) # 0

\* C4 (amended): the signature portion of every Definition ends with a colon
\* seen at parenthesis depth at most 0, exactly 0 when the close parentheses
\* since the keyword never outnumber the open ones; every other colon of the
\* signature portion was seen at depth > 0, and the depth the reader counted is
\* the number of open minus close parentheses consumed since the keyword.
C4_ColonOutsideParens ==
    \A d \in 1..Len(defs) :
        LET sig == SubSeq(defs[d].tokens, 1, defs[d].nsig)
        IN  /\ IsColonAt(gen, sig, Len(sig))
            /\ DepthBefore(gen, sig, Len(sig)) <= 0
            /\ defs[d].parens = DepthBefore(gen, sig, Len(sig))
            /\ (\A k \in 1..Len(sig) : DepthBefore(gen, sig, k) >= 0)
                  => DepthBefore(gen, sig, Len(sig)) = 0
            /\ \A k \in 1..(Len(sig) - 1) :
                  IsColonAt(gen, sig, k) => DepthBefore(gen, sig, k) > 0

\* a Definition whose signature holds a colon inside parentheses before the
\* colon that ends it
C4_Witness ==
    \E d \in 1..Len(defs) :
        \E k \in 1..(defs[d].nsig - 1) : IsColonAt(gen, defs[d].tokens, k)

\* the length of the maximal run of NEWLINE/INDENT/STRING tokens after token c
RunLength(g, c) ==
    CHOOSE m \in 0..(Len(g.toks) - c) :
        /\ \A k \in 1..m : g.toks[c + k].type \in {"NEWLINE", "INDENT", "STRING"}
        /\ \/ c + m = Len(g.toks)
           \/ g.toks[c + m + 1].type \notin {"NEWLINE", "INDENT", "STRING"}

\* C5: with docstring capture on, the tokens of a Definition after its
\* terminating colon are the whole maximal run of NEWLINE/INDENT/STRING tokens
\* that follows the colon when that run holds a STRING token, and none
\* otherwise (the Definition then ends with the colon).
C5_DocstringIffString ==
    docstrings =>
        \A d \in 1..Len(defs) :
            LET tokens == defs[d].tokens
                colon  == tokens[defs[d].nsig]
                m      == RunLength(gen, colon)
                hasStr == \E k \in 1..m : gen.toks[colon + k].type = "STRING"
            IN  /\ IsColonAt(gen, tokens, defs[d].nsig)
                /\ SubSeq(tokens, defs[d].nsig + 1, Len(tokens))
                      = IF hasStr THEN [k \in 1..m |-> colon + k] ELSE <<>>

\* a Definition that was extended with the run after its colon
C5_Witness ==
    /\ docstrings
    /\ \E d \in 1..Len(defs) : Len(defs[d].tokens) > defs[d].nsig + 1

Range(seq) == {seq[k] : k \in 1..Len(seq)}

\* a Definition is private iff the text of the token after its keyword starts
\* with an underscore
IsPrivate(tokens) == StartsWithUnderscore(gen.toks[tokens[2]].string)

IsPublic(tokens) == ~IsPrivate(tokens)

\* C6: on the Definitions of one stream, the Definitions filter_definitions
\* retains in Public mode and in Private mode are disjoint and together are
\* those it retains in All mode; the private ones are those whose name token
\* starts with `_`; each filtered sequence keeps the order of its input, and
\* the run's own filter yielded the sequence of its mode.
C6_PublicPrivatePartition ==
    (result.kind \in {"none", "int"}) =>
        LET public  == FilterDefinitions(gen, Definitions, "public")
            private == FilterDefinitions(gen, Definitions, "private")
            all     == FilterDefinitions(gen, Definitions, "all")
        IN  /\ Range(public) \cap Range(private) = {}
            /\ Range(public) \cup Range(private) = Range(all)
            /\ all = Definitions
            /\ private = SelectSeq(Definitions, IsPrivate)
            /\ public = SelectSeq(Definitions, IsPublic)
            /\ kept = CASE def_type = "public"  -> public
                        [] def_type = "private" -> private
                        [] OTHER -> all

\* a stream with a public and a private Definition, filtered in Private mode
C6_Witness ==
    /\ def_type = "private"
    /\ result.kind = "int"
    /\ Len(kept) >= 1
    /\ Len(kept) < Len(defs)

\* the first keyword token after position p of the stream, or 0
NextKeyword(g, p) ==
    IF \E i \in KeywordTokens(g) : i > p
    THEN CHOOSE i \in KeywordTokens(g) : i > p /\ \A j \in KeywordTokens(g) : j > p => i <= j
    ELSE 0

\* no colon outside parentheses follows keyword token i before the stream ends
Unterminated(g, i) ==
    \A j \in (i + 1)..Len(g.toks) :
        ExactType(g.toks[j]) = "COLON"
            => DepthBefore(g, [k \in 1..(j - i + 1) |-> i + k - 1], j - i + 1) > 0

\* the scanner stands before a keyword whose header never ends
AtUnterminated ==
    /\ pc = "scan"
    /\ NextKeyword(gen, gen.pos) # 0
    /\ Unterminated(gen, NextKeyword(gen, gen.pos))

\* C7: if the stream is exhausted after a `def`/`class` keyword before a colon
\* outside parentheses is found, the extraction of the file fails: the failure
\* leaves find_definitions, module_api and the handler, no Definition is
\* produced for the keyword, and no list of the Definitions found earlier is
\* returned for the file.
C7_ExhaustedHeaderFails ==
    [][AtUnterminated =>
          /\ pc' \in {"returned", "raised"}
          /\ result'.kind \in {"return", "raise"}
          /\ result'.text \in {"generator raised StopIteration",
                               "EOF in multi-line statement",
                               "RuntimeError", "TokenError"}
          /\ defs' = defs
          /\ kept' = kept
          /\ api' = api
          /\ out_apis' = out_apis
          /\ stdout' = stdout]_vars

\* a file fails at an unterminated header after an earlier Definition was found
C7_Witness ==
    /\ pc = "returned"
    /\ result.kind = "return"
    /\ Len(defs) >= 1
    /\ Len(api) >= 1
    /\ NextKeyword(gen, defs[Len(defs)].pos) # 0
    /\ Unterminated(gen, NextKeyword(gen, defs[Len(defs)].pos))

\* C8: a Definition whose token after the keyword is not a NAME token is not
\* yielded by filter_definitions in any mode (the filter fails instead).
C8_NonNameNotYielded ==
    \A k \in 1..Len(kept) : ExactType(gen.toks[kept[k][2]]) = "NAME"

\* the modelled sources whose extraction fails (a header that never ends)
FailingSources == {SrcTruncated, SrcTruncatedSecond}

\* the exception that reading or extracting a file raises, or "none"
FailureOf(f) ==
    CASE ~f.readable -> "OSError"
      [] f.src \in FailingSources -> "RuntimeError"
      [] OTHER -> "none"

\* the index of the first file of the command line that fails, or 0
FirstFailing ==
    IF \E k \in 1..Len(files) : FailureOf(files[k]) # "none"
    THEN CHOOSE k \in 1..Len(files) :
            /\ FailureOf(files[k]) # "none"
            /\ \A j \in 1..(k - 1) : FailureOf(files[j]) = "none"
    ELSE 0

MainEnded == pc \in {"returned", "raised"}

\* what C9 says of a state of the run
C9_State ==
    /\ opened = [k \in 1..fileIdx |-> k]
    /\ FirstFailing # 0 => fileIdx <= FirstFailing
    /\ MainEnded =>
          IF FirstFailing = 0
          THEN /\ pc = "returned"
               /\ result = [kind |-> "int", code |-> 0, text |-> ""]
               /\ ExitStatus(result) = 0
               /\ fileIdx = Len(files)
          ELSE /\ fileIdx = FirstFailing
               /\ ExitStatus(result) # 0
               /\ stdout = <<>>
               /\ IF debug
                  THEN /\ pc = "raised"
                       /\ result.kind = "raise"
                       /\ result.text = FailureOf(files[FirstFailing])
                  ELSE /\ pc = "returned"
                       /\ result.kind = "return"
                       /\ result.text = Message(FailureOf(files[FirstFailing]))

\* C9: main works through the files in order; when reading or extracting file
\* k fails no later file is opened and the run ends with a non-zero exit
\* status, main returning the failure's message with debug off and re-raising
\* the failure with debug on; when every file succeeds main returns 0.  Once
\* main has ended nothing more happens.
C9_StopsAtFirstFailure ==
    /\ []C9_State
    /\ [][~MainEnded]_vars

\* a run that failed at a file with files still to come
C9_Witness ==
    /\ MainEnded
    /\ FirstFailing # 0
    /\ FirstFailing < Len(files)
    /\ debug

RECURSIVE LinesTouched(_, _, _, _)
\* the physical lines the tokens of a Definition lie on, each once, in order
LinesTouched(g, tokens, k, lastRow) ==
    IF k > Len(tokens) THEN ""
    ELSE LET t == g.toks[tokens[k]]
         IN  IF t.start[1] = lastRow THEN LinesTouched(g, tokens, k + 1, lastRow)
             ELSE t.line \o LinesTouched(g, tokens, k + 1, t.start[1])

\* C10: the text module_api returns for a Definition is the concatenation, in
\* order and each once, of the complete physical source lines its tokens lie
\* on (with the indentation, a trailing comment and the line terminator).
C10_RendersWholeLines ==
    \A k \in 1..Len(api) : api[k] = LinesTouched(gen, kept[k], 1, 0)

\* the number of tokens taken from the stream when Definition d was triggered
PosBefore(d) == IF d = 1 THEN 0 ELSE defs[d - 1].pos

\* C11: every Definition yielded by find_definitions begins with the keyword
\* token that triggered it (the first keyword token the scanner met), is a run
\* of consecutive tokens of the stream, and the Definitions are yielded in
\* strictly increasing order of the position of their keyword token.
C11_ContiguousInOrder ==
    \A d \in 1..Len(defs) :
        LET tokens == defs[d].tokens
        IN  /\ gen.toks[tokens[1]].type = "NAME"
            /\ gen.toks[tokens[1]].string \in {"def", "class"}
            /\ tokens[1] = NextKeyword(gen, PosBefore(d))
            /\ \A k \in 1..Len(tokens) : tokens[k] = tokens[1] + k - 1
            /\ \A e \in 1..(d - 1) : defs[e].tokens[1] < tokens[1]

\* two Definitions of one stream, the first extended with its docstring
C11_Witness ==
    /\ Len(defs) >= 2
    /\ Len(defs[1].tokens) > defs[1].nsig

\* what C12 says of a state of the scan
C12_State ==
    /\ \A d \in 1..Len(defs) :
          /\ PosBefore(d) < defs[d].tokens[1]
          /\ \A k \in 1..Len(defs[d].tokens) : defs[d].tokens[k] <= defs[d].pos
          /\ defs[d].pos <= gen.pos
          /\ \A e \in 1..(d - 1) :
                Range(defs[e].tokens) \cap Range(defs[d].tokens) = {}
    /\ \A i \in KeywordTokens(gen) :
          (\E e \in 1..Len(defs) : defs[e].tokens[1] < i /\ i <= defs[e].pos)
              => \A d \in 1..Len(defs) : defs[d].tokens[1] # i

\* C12: the scan is single-pass: the number of tokens taken from the tokenizer
\* of a file only grows, no token belongs to two Definitions, and a keyword
\* token taken while an earlier Definition was read never starts a Definition.
C12_SinglePass ==
    /\ []C12_State
    /\ [][pc = "scan" => gen'.pos >= gen.pos]_vars

\* a keyword token lies inside an earlier Definition, and the scan went on
C12_Witness ==
    /\ ApiReturned
    /\ \E d \in 1..Len(defs) :
          \E k \in 2..Len(defs[d].tokens) : IsKeyword(gen.toks[defs[d].tokens[k]])

IsStringAt(g, tokens, k) == g.toks[tokens[k]].type = "STRING"

\* C13: the docstring tokens appended to a Definition hold at most one run of
\* string-literal tokens: no token that is not a string lies between two of
\* its string tokens (a string statement on the line after the docstring is
\* not part of the Definition).
C13_OneStringRun ==
    \A d \in 1..Len(defs) :
        LET tokens == defs[d].tokens
        IN  \A a, b, c \in (defs[d].nsig + 1)..Len(tokens) :
                (a < b /\ b < c /\ IsStringAt(gen, tokens, a) /\ IsStringAt(gen, tokens, c))
                    => IsStringAt(gen, tokens, b)

\* C14: with docstring capture off _read_signature takes no token after the
\* terminating colon: every Definition ends with its colon, which is the last
\* token taken, and the first keyword token after the colon of a Definition
\* starts the next Definition; when the scan ends no keyword token lies
\* outside the Definitions.
C14_NoLookAheadWhenOff ==
    ~docstrings =>
        /\ \A d \in 1..Len(defs) :
              LET tokens == defs[d].tokens
              IN  /\ Len(tokens) = defs[d].nsig
                  /\ IsColonAt(gen, tokens, Len(tokens))
                  /\ defs[d].pos = Last(tokens)
                  /\ tokens[1] = NextKeyword(gen, IF d = 1 THEN 0
                                                  ELSE Last(defs[d - 1].tokens))
        /\ ApiReturned =>
              \A i \in KeywordTokens(gen) :
                  \E d \in 1..Len(defs) : i \in Range(defs[d].tokens)

\* with docstrings off, a keyword right after the NEWLINE and INDENT that
\* follow a colon started its own Definition
C14_Witness ==
    /\ ~docstrings
    /\ \E d \in 2..Len(defs) :
          /\ defs[d].tokens[1] = Last(defs[d - 1].tokens) + 3
          /\ gen.toks[Last(defs[d - 1].tokens) + 1].type = "NEWLINE"
          /\ gen.toks[Last(defs[d - 1].tokens) + 2].type = "INDENT"

\* the header line of file k starts its entry in out_apis
HasHeader(k) ==
    LET header == "# " \o files[k].name
    IN  /\ Len(out_apis[k]) >= Len(header)
        /\ SubSeq(out_apis[k], 1, Len(header)) = header

\* what C15 says of a state of the run
C15_State ==
    /\ Len(out_apis) <= fileIdx
    /\ \A k \in 1..Len(out_apis) : HasHeader(k)
    /\ stdout # <<>> =>
          /\ pc = "returned"
          /\ result.kind = "int"
          /\ FirstFailing = 0
          /\ Len(out_apis) = Len(files)
          /\ stdout = << Join("\n\n", out_apis) \o "\n" >>
    /\ (MainEnded /\ FirstFailing = 0) => stdout # <<>>
    /\ (MainEnded /\ FirstFailing # 0) => stdout = <<>>

\* C15: handler's output is all-or-nothing: the header lines and rendered
\* Definitions of all files are printed in one step, in the order the files
\* were given, only after every file was read and extracted; if a file fails
\* nothing is printed for any file.
C15_AllOrNothing ==
    /\ []C15_State
    /\ [][stdout' # stdout => (stdout = <<>> /\ fileIdx = Len(files) /\ pc = "loop")]_vars

\* a run that failed after an earlier file was extracted, with nothing printed
C15_Witness ==
    /\ MainEnded
    /\ FirstFailing > 1
    /\ Len(out_apis) >= 1
    /\ stdout = <<>>

====
